---- MODULE Spec2Model ----
(***************************************************************************)
(* RotatingSquare.js: a square (two triangles, six vertex entries) drawn   *)
(* on a 2D canvas and rotated a little more on every animation frame; the  *)
(* keys r, g, b, w select the vertex index used to build the rotation.     *)
(*                                                                         *)
(* Units.  World coordinates are kept in halves (the array holds -0.5 and  *)
(* 0.5, the model holds -1 and 1).  Pixel coordinates are integers: the    *)
(* canvas sizes are multiples of 2*DefaultN, so every division that        *)
(* mapToViewport performs is exact.  Matrix entries and transformed points *)
(* are fixed-point numbers with unit Scale (cos 0 = Scale).                *)
(*                                                                         *)
(* Scripts run to completion: pc is the position of the one script that is *)
(* running ("load", "idle" and "failed" mean that none is), and a key      *)
(* event waits in keys until the event loop dispatches it.                 *)
(***************************************************************************)
EXTENDS Integers, Sequences, FiniteSets, TLC

VARIABLES
    pc,        \* position of the running script
    canvas,    \* what the page offers: state of #theCanvas and its size
    ctx,       \* the context mainEntrance obtained
    w, h,      \* canvas width and height
    edge,      \* current fixed edge index
    rotation,  \* the closure variable of runanimation
    pending,   \* animation callbacks requested and not yet run
    keys,      \* keydown events not yet dispatched
    lastKey,   \* the last key that passed the test of the listener
    nticks,    \* ticks completed so far, counted up to MaxTicks
    points, m, \* locals of draw
    path,      \* the points of the current path of the context
    pivots,    \* the indices i at which the last draw found i == edge
    arg, ret,  \* argument and result of a direct call of a function
    pixels     \* the colour of the canvas at the places of Samples

vars == <<pc, canvas, ctx, w, h, edge, rotation, pending, keys, lastKey,
          nticks, points, m, path, pivots, arg, ret, pixels>>

\* ---------------------------------------------------------------- bounds
MaxQueue == 1
MaxTicks == 182
MaxIndex == 60
MaxAngleSteps == 10
MaxSize == 3
MaxCoord == 2

\* ------------------------------------------------------------- constants
Undefined == -999999
DefaultN == 5
Step == 2
FullTurn == 360

Keys == {"r", "g", "b", "w", "x"}
CanvasSizes == {<<200, 100>>}
CanvasStates == {"missing", "nocontext", "ok"}

\* ------------------------------------------------------- geometry store
\* Variant: the square stored as its four corners.
verticesQuad == <<-1, -1, 1, -1, 1, 1, -1, 1>>
\* The coordinates in halves: -1 stands for -0.5, 1 for 0.5.
vertices == <<-1, -1, 1, -1, 1, 1, -1, -1, 1, 1, -1, 1>>

\* Variant: the array length divided by its number of floats per triangle pair.
numPointsHalved == Len(vertices) \div 4
numPoints == Len(vertices) \div 2

\* JavaScript's % : the remainder takes the sign of the dividend.
JsRem(a, b) == IF a >= 0 THEN a % b ELSE -((-a) % b)

\* vertices[j] of a typed array: undefined outside 0..length-1.
ElementAt(j) == IF j >= 0 /\ j < Len(vertices) THEN vertices[j + 1] ELSE Undefined

getVertex(i) ==
    LET j == JsRem(i, numPoints) * 2
    IN  <<ElementAt(j), ElementAt(j + 1)>>

\* ------------------------------------------------------ viewport mapper
\* Variants: a mapping without the shift by n/2, and one that keeps the
\* direction of y.
mapToViewportNoShift(x, y, n) == <<(x * w) \div (2 * n), (-y * h) \div (2 * n)>>
mapToViewportYUp(x, y, n) ==
    <<((x + n) * w) \div (2 * n), ((y + n) * h) \div (2 * n)>>
\* x, y in halves: ((x/2 + n/2) * w) / n = ((x + n) * w) / (2n).
mapToViewport(x, y, n) ==
    <<((x + n) * w) \div (2 * n), ((-y + n) * h) \div (2 * n)>>

\* ------------------------------------------------------ pivot selector
\* Variant: the table with its values rotated by one.
indexCoordShifted == [k \in {"r", "g", "b", "w"} |->
                        CASE k = "r" -> 1 [] k = "g" -> 2 [] k = "b" -> 3 [] k = "w" -> 0]
indexCoord == [k \in {"r", "g", "b", "w"} |->
                  CASE k = "r" -> 0 [] k = "g" -> 1 [] k = "b" -> 2 [] k = "w" -> 3]

Recognized(k) == k = "r" \/ k = "g" \/ k = "b" \/ k = "w"

\* ------------------------------------------------------------ DOMMatrix
\* cos of 0, 2, ..., 90 degrees, in units of 1/10000.
CosTable ==
    <<10000, 9994, 9976, 9945, 9903, 9848, 9781, 9703, 9613, 9511,
      9397, 9272, 9135, 8988, 8829, 8660, 8480, 8290, 8090, 7880,
      7660, 7431, 7193, 6947, 6691, 6428, 6157, 5878, 5592, 5299,
      5000, 4695, 4384, 4067, 3746, 3420, 3090, 2756, 2419, 2079,
      1736, 1392, 1045, 698, 349, 0>>

Scale == CosTable[1]

Cos(deg) ==
    LET a == deg % FullTurn
    IN  IF a <= 90 THEN CosTable[(a \div 2) + 1]
        ELSE IF a <= 180 THEN -CosTable[((180 - a) \div 2) + 1]
        ELSE IF a <= 270 THEN -CosTable[((a - 180) \div 2) + 1]
        ELSE CosTable[((FullTurn - a) \div 2) + 1]

Sin(deg) == Cos(deg - 90)

Identity == [a |-> Scale, b |-> 0, c |-> 0, d |-> Scale, e |-> 0, f |-> 0]

\* DOMMatrix.translate: post-multiplication by a translation.
Translate(mat, tx, ty) ==
    [mat EXCEPT !.e = mat.e + mat.a * tx + mat.c * ty,
                !.f = mat.f + mat.b * tx + mat.d * ty]

\* DOMMatrix.rotate(deg): post-multiplication by a rotation about z.
Rotate(mat, deg) ==
    [a |-> (mat.a * Cos(deg) + mat.c * Sin(deg)) \div Scale,
     b |-> (mat.b * Cos(deg) + mat.d * Sin(deg)) \div Scale,
     c |-> (mat.c * Cos(deg) - mat.a * Sin(deg)) \div Scale,
     d |-> (mat.d * Cos(deg) - mat.b * Sin(deg)) \div Scale,
     e |-> mat.e,
     f |-> mat.f]

\* DOMPoint.matrixTransform; the result is in units of 1/Scale pixel.
MatrixTransform(p, mat) ==
    <<mat.a * p[1] + mat.c * p[2] + mat.e, mat.b * p[1] + mat.d * p[2] + mat.f>>

\* ------------------------------------------------------------- renderer
\* The point pushed by the first loop of draw for vertex i.
Projected(i) == mapToViewport(getVertex(i)[1], getVertex(i)[2], DefaultN)

\* Variant: the second translation repeats the offset of the first.
PivotMatrixSameSign(x, y, rot) ==
    CHOOSE t2 \in {Translate(r, w - x, h - y) :
                     r \in {Rotate(t1, rot) :
                              t1 \in {Translate(Identity, w - x, h - y)}}} : TRUE
\* matrix.translate(w-x, h-y, 0).rotate(rotation).translate(x-w, y-h, 0):
\* each call of the chain acts on the matrix value the previous call returned.
PivotMatrix(x, y, rot) ==
    CHOOSE t2 \in {Translate(r, x - w, y - h) :
                     r \in {Rotate(t1, rot) :
                              t1 \in {Translate(Identity, w - x, h - y)}}} : TRUE

\* The array points after the first loop.
DrawPoints == [i \in 1..numPoints |-> Projected(i - 1)]

\* The indices at which the first loop assigns m.
PivotIndices == {i \in 0..(numPoints - 1) : i = edge}

\* m after the first loop, built from the point pushed in the iteration with
\* i == edge; matrixTransform(undefined) is the identity.
DrawMatrix(pts, rot) ==
    IF PivotIndices = {} THEN Identity
    ELSE PivotMatrix(pts[edge + 1][1], pts[edge + 1][2], rot)

\* The points handed to moveTo / lineTo by the second loop.
DrawPath == [i \in 1..numPoints |-> MatrixTransform(points[i], m)]

\* --------------------------------------------------------------- canvas
\* The places of the canvas whose colour the model follows: one inside the
\* square as it stands at rotation 0, one in a corner the square never reaches.
Samples == {<<110, 55>>, <<10, 10>>}

\* A new canvas is transparent.  The picture is a set of pairs: place, colour.
Blank == Samples \X {"blank"}

\* A path point, kept in units of 1/Scale pixel, on the pixel grid.
Pixel(p) == <<(p[1] + Scale \div 2) \div Scale, (p[2] + Scale \div 2) \div Scale>>

\* ctx.rect(0, 0, w, h): the subpath it adds, in units of 1/Scale pixel.
Rect == <<<<0, 0>>, <<w * Scale, 0>>, <<w * Scale, h * Scale>>, <<0, h * Scale>>>>

\* The edges of a path, each subpath closed: subpath, position, from, to.
Edges(subs) ==
    UNION {{<<k, i, Pixel(subs[k][i]), Pixel(subs[k][(i % Len(subs[k])) + 1])>> :
              i \in 1..Len(subs[k])} : k \in 1..Len(subs)}

\* Which side of the line from p to q the place s lies on.
IsLeft(p, q, s) == (q[1] - p[1]) * (s[2] - p[2]) - (s[1] - p[1]) * (q[2] - p[2])

\* The edge e passes the place s in the one direction, or in the other.
CrossesUp(e, s) == e[3][2] <= s[2] /\ e[4][2] > s[2] /\ IsLeft(e[3], e[4], s) > 0
CrossesDown(e, s) == e[3][2] > s[2] /\ e[4][2] <= s[2] /\ IsLeft(e[3], e[4], s) < 0

\* The winding number of the place s for a set of edges.
Winding(es, s) ==
    Cardinality({e \in es : CrossesUp(e, s)}) - Cardinality({e \in es : CrossesDown(e, s)})

\* ctx.fill() with the nonzero winding rule: the places inside the current
\* path take the fill colour, the others keep theirs.
Fill(px, subs, colour) ==
    {<<p[1], IF Winding(es, p[1]) # 0 THEN colour ELSE p[2]>> :
        <<p, es>> \in px \X {Edges(subs)}}

\* The current path at the fill of the background: what the context still
\* holds from the last draw, then the subpath of ctx.rect.
Background(old) == IF old = <<>> THEN <<Rect>> ELSE <<old, Rect>>

\* ----------------------------------------------------- animation driver
\* Variants: a check with <= in place of <, and no check at all.
WrapAngleInclusive(r) == IF r <= -FullTurn THEN 0 ELSE r
WrapAngleNever(r) == r
WrapAngle(r) == IF r < -FullTurn THEN 0 ELSE r

\* Variant: the tick that forgets to request the next frame.
RequestNothing(p) == p
\* Variant: a tick that requests the next frame twice.
RequestTwice(p) == p + 2
requestAnimationFrame(p) == p + 1

\* Variant: a draw that returns quietly when it has no context.
DrawIgnoresContext(c) == FALSE
\* draw's first statement dereferences ctx.
DrawThrows(c) == c = "null"

\* Variant: a listener that may run in the middle of another script.
HandlerMayPreempt(p) == TRUE
\* The event loop runs a handler only when no other script is running.
HandlerMayRun(p) == p \in {"load", "idle", "failed"}

Init ==
    /\ pc = "load"
    /\ canvas \in [state : CanvasStates, size : CanvasSizes]
    /\ ctx = "undefined"
    /\ w = Undefined
    /\ h = Undefined
    /\ edge = 0
    /\ rotation = 0
    /\ pending = 0
    /\ keys = <<>>
    /\ lastKey = "none"
    /\ nticks = 0
    /\ points = <<>>
    /\ m = Identity
    /\ path = <<>>
    /\ pivots = {}
    /\ arg = 0
    /\ ret = <<>>
    /\ pixels = Blank

\* A key is pressed: the event waits until the event loop can dispatch it.
KeyPress(k) ==
    /\ Len(keys) < MaxQueue
    /\ keys' = Append(keys, k)
    /\ UNCHANGED <<pc, canvas, ctx, w, h, edge, rotation, pending, lastKey,
                   nticks, points, m, path, pivots, arg, ret, pixels>>

\* Variant: a listener that starts the turn again when the pivot changes.
KeyDownResetsAngle ==
    /\ keys # <<>>
    /\ HandlerMayRun(pc)
    /\ edge' = IF Recognized(Head(keys)) THEN indexCoord[Head(keys)] ELSE edge
    /\ lastKey' = IF Recognized(Head(keys)) THEN Head(keys) ELSE lastKey
    /\ rotation' = IF Recognized(Head(keys)) THEN 0 ELSE rotation
    /\ keys' = Tail(keys)
    /\ UNCHANGED <<pc, canvas, ctx, w, h, pending, nticks, points, m, path,
                   pivots, arg, ret, pixels>>

\* The keydown listener.
KeyDown ==
    /\ keys # <<>>
    /\ HandlerMayRun(pc)
    /\ edge' = IF Recognized(Head(keys)) THEN indexCoord[Head(keys)] ELSE edge
    /\ lastKey' = IF Recognized(Head(keys)) THEN Head(keys) ELSE lastKey
    /\ keys' = Tail(keys)
    /\ UNCHANGED <<pc, canvas, ctx, w, h, rotation, pending, nticks, points, m, path, pivots, arg, ret, pixels>>

\* mainEntrance up to the call of runanimation.
MainEntrance ==
    /\ pc = "load"
    /\ IF canvas.state = "missing"
       THEN /\ pc' = "failed"
            /\ UNCHANGED <<ctx, w, h, rotation>>
       ELSE /\ ctx' = IF canvas.state = "ok" THEN "2d" ELSE "null"
            /\ w' = canvas.size[1]
            /\ h' = canvas.size[2]
            /\ rotation' = 0
            /\ pc' = "draw"
    /\ UNCHANGED <<canvas, edge, pending, keys, lastKey, nticks, points, m, path, pivots, arg, ret, pixels>>

\* draw(ctx, rotation): the background, beginPath and the first loop.
Draw ==
    /\ pc = "draw"
    /\ IF DrawThrows(ctx)
       THEN /\ pc' = "failed"
            /\ UNCHANGED <<points, m, pivots, path, pixels>>
       ELSE /\ pc' = "polygon"
            /\ pixels' = Fill(pixels, Background(path), "white")
            /\ path' = <<>>
            /\ points' = DrawPoints
            /\ m' = DrawMatrix(points', rotation)
            /\ pivots' = PivotIndices
    /\ UNCHANGED <<canvas, ctx, w, h, edge, rotation, pending, keys, lastKey,
                   nticks, arg, ret>>

\* draw(ctx, rotation): the second loop, closePath and fill.
Polygon ==
    /\ pc = "polygon"
    /\ path' = DrawPath
    /\ pixels' = Fill(pixels, <<path'>>, "teal")
    /\ points' = <<>>
    /\ m' = Identity
    /\ pc' = "update"
    /\ UNCHANGED <<canvas, ctx, w, h, edge, rotation, pending, keys, lastKey,
                   nticks, pivots, arg, ret>>

\* Variant: a tick that decrements and goes on without the wrap check.
UpdateWithoutCheck ==
    /\ pc = "update"
    /\ rotation' = rotation - Step
    /\ pc' = "request"
    /\ UNCHANGED <<canvas, ctx, w, h, edge, pending, keys, lastKey, nticks,
                   points, m, path, pivots, arg, ret, pixels>>

\* rotation -= 2
Update ==
    /\ pc = "update"
    /\ rotation' = rotation - Step
    /\ pc' = "wrap"
    /\ UNCHANGED <<canvas, ctx, w, h, edge, pending, keys, lastKey, nticks, points, m, path, pivots, arg, ret, pixels>>

\* if (rotation < -360) rotation = 0
WrapCheck ==
    /\ pc = "wrap"
    /\ rotation' = WrapAngle(rotation)
    /\ pc' = "request"
    /\ UNCHANGED <<canvas, ctx, w, h, edge, pending, keys, lastKey, nticks, points, m, path, pivots, arg, ret, pixels>>

\* requestAnimationFrame(runanimation); the tick returns.
Request ==
    /\ pc = "request"
    /\ pending' = requestAnimationFrame(pending)
    /\ nticks' = IF nticks < MaxTicks THEN nticks + 1 ELSE nticks
    /\ pc' = "idle"
    /\ UNCHANGED <<canvas, ctx, w, h, edge, rotation, keys, lastKey,
                   points, m, path, pivots, arg, ret, pixels>>

\* The browser runs a pending animation callback at a display refresh.
Frame ==
    /\ pc = "idle"
    /\ pending > 0
    /\ pending' = pending - 1
    /\ pc' = "draw"
    /\ UNCHANGED <<canvas, ctx, w, h, edge, rotation, keys, lastKey, nticks, points, m, path, pivots, arg, ret, pixels>>

Tick == Frame \/ Draw \/ Polygon \/ Update \/ WrapCheck \/ Request

Next ==
    \/ \E k \in Keys : KeyPress(k)
    \/ KeyDown
    \/ MainEntrance
    \/ Frame
    \/ Draw
    \/ Polygon
    \/ Update
    \/ WrapCheck
    \/ Request

Spec == Init /\ [][Next]_vars

\* A script that runs takes its next step, and the display keeps refreshing.
FairSpec == Spec /\ WF_vars(Tick)

\* --------------------------------------------- getVertex called directly
InitVertex ==
    /\ pc = "load"
    /\ canvas = [state |-> "ok", size |-> <<200, 100>>]
    /\ ctx = "undefined"
    /\ w = Undefined
    /\ h = Undefined
    /\ edge = 0
    /\ rotation = 0
    /\ pending = 0
    /\ keys = <<>>
    /\ lastKey = "none"
    /\ nticks = 0
    /\ points = <<>>
    /\ m = Identity
    /\ path = <<>>
    /\ pivots = {}
    /\ arg \in -MaxIndex..MaxIndex
    /\ ret = <<>>
    /\ pixels = Blank

GetVertexCall ==
    /\ ret = <<>>
    /\ ret' = getVertex(arg)
    /\ UNCHANGED <<pc, canvas, ctx, w, h, edge, rotation, pending, keys, lastKey,
                   nticks, points, m, path, pivots, arg, pixels>>

NextVertex == GetVertexCall

VertexSpec == InitVertex /\ [][NextVertex]_vars

\* ------------------------------------------- draw called twice in a row
\* The state in which runanimation calls draw, for each pivot index the
\* listener can store and each of the first angles of a turn.
InitDraw ==
    /\ pc = "draw"
    /\ canvas = [state |-> "ok", size |-> <<200, 100>>]
    /\ ctx = "2d"
    /\ w = 200
    /\ h = 100
    /\ edge \in {indexCoord[k] : k \in DOMAIN indexCoord}
    /\ rotation \in {-Step * k : k \in 0..MaxAngleSteps}
    /\ pending = 0
    /\ keys = <<>>
    /\ lastKey = "none"
    /\ nticks = 0
    /\ points = <<>>
    /\ m = Identity
    /\ path = <<>>
    /\ pivots = {}
    /\ arg = 0
    /\ ret = <<>>
    /\ pixels = Blank

\* draw has returned; its path and its picture are kept for comparison and
\* draw is called again with the same arguments.
DrawAgain ==
    /\ pc = "update"
    /\ ret = <<>>
    /\ ret' = <<path, pixels>>
    /\ pc' = "draw"
    /\ UNCHANGED <<canvas, ctx, w, h, edge, rotation, pending, keys, lastKey,
                   nticks, points, m, path, pivots, arg, pixels>>

NextDraw == Draw \/ Polygon \/ DrawAgain

DrawSpec == InitDraw /\ [][NextDraw]_vars

\* ----------------------------------------- mapToViewport called directly
\* Canvas sizes that every 2n with n in 1..DefaultN divides, which keeps the
\* divisions of mapToViewport exact.
ViewportSizes == {120 * k : k \in 1..MaxSize}

\* The state in which draw calls mapToViewport, for each canvas size, and the
\* arguments of two calls that differ in y only.
InitMap ==
    /\ pc = "draw"
    /\ w \in ViewportSizes
    /\ h \in ViewportSizes
    /\ canvas = [state |-> "ok", size |-> <<w, h>>]
    /\ ctx = "2d"
    /\ edge = 0
    /\ rotation = 0
    /\ pending = 0
    /\ keys = <<>>
    /\ lastKey = "none"
    /\ nticks = 0
    /\ points = <<>>
    /\ m = Identity
    /\ path = <<>>
    /\ pivots = {}
    /\ arg \in [x : -MaxCoord..MaxCoord, y1 : -MaxCoord..MaxCoord,
                 y2 : -MaxCoord..MaxCoord, n : 1..DefaultN]
    /\ ret = <<>>
    /\ pixels = Blank

MapCall ==
    /\ ret = <<>>
    /\ ret' = <<mapToViewport(arg.x, arg.y1, arg.n), mapToViewport(arg.x, arg.y2, arg.n)>>
    /\ UNCHANGED <<pc, canvas, ctx, w, h, edge, rotation, pending, keys, lastKey,
                   nticks, points, m, path, pivots, arg, pixels>>

NextMap == MapCall

MapSpec == InitMap /\ [][NextMap]_vars

\* ================================================================ claims
Running == {"draw", "polygon", "update", "wrap", "request"}

\* The pixel point p in the fixed-point unit of transformed points.
Scaled(p) == <<Scale * p[1], Scale * p[2]>>

\* C1 as stated: whenever draw is called, the angle passed to it is strictly
\* greater than -360 and at most 0.
AngleInOpenRange == pc = "draw" => (rotation > -360 /\ rotation <= 0)

\* C1 amended: whenever draw is called, the angle passed to it is at least
\* -360 and at most 0; -360 itself is passed, on the 181st tick.
AngleInClosedRange == pc = "draw" => (rotation >= -360 /\ rotation <= 0)

AngleReachesFullTurn == pc = "draw" /\ rotation = -360 /\ lastKey # "none"

\* C2: tick k (counting from 0) draws with angle -2k for k in 0..179; after
\* 180 ticks the stored angle is exactly -360; the 181st tick decrements it
\* to -362 and its check resets it to 0.
AngleSequence ==
    /\ (pc \in {"draw", "polygon", "update"} /\ nticks <= 179) => rotation = -2 * nticks
    /\ (pc = "idle" /\ nticks <= 180) => rotation = -2 * nticks
    /\ (pc \in {"draw", "polygon", "update"} /\ nticks = 180) => rotation = -360
    /\ (pc = "wrap" /\ nticks = 180) => rotation = -362
    /\ (pc = "request" /\ nticks = 180) => rotation = 0
    /\ (pc = "idle" /\ nticks = 181) => rotation = 0

AngleResetOnTick181 == pc = "idle" /\ nticks = 181 /\ rotation = 0

\* C3: a run of the key listener on an unrecognized key leaves edge as it
\* was; on r, g, b, w it sets edge to 0, 1, 2, 3, whatever edge was before.
KeySetsPivot ==
    [][\A k \in Keys :
          (keys # <<>> /\ Head(keys) = k /\ keys' = Tail(keys)) =>
              edge' = CASE k = "r" -> 0
                        [] k = "g" -> 1
                        [] k = "b" -> 2
                        [] k = "w" -> 3
                        [] OTHER -> edge]_vars

KeyWHandled == lastKey = "w" /\ edge = 3 /\ keys = <<>> /\ nticks > 0

\* C4: edge is always one of 0, 1, 2, 3 and less than the number of points,
\* and every draw that ran found exactly one index i with i == edge, so m
\* was assigned.
PivotIndexValid ==
    /\ edge \in {0, 1, 2, 3}
    /\ edge < numPoints
    /\ (pc \in Running \ {"draw"} \/ pc = "idle") => Cardinality(pivots) = 1

PivotThreeDrawn == pc = "polygon" /\ edge = 3 /\ pivots = {3}

\* C5: while a tick runs no key event is dispatched and edge does not
\* change; an event that arrives meanwhile stays queued; and a draw that
\* follows the handling of a recognized key uses that key's index.
KeysWaitForTick ==
    [][/\ pc \in Running => (edge' = edge /\ lastKey' = lastKey /\ Len(keys') >= Len(keys))
       /\ (pc = "draw" /\ pc' = "polygon" /\ lastKey # "none") =>
              pivots' = {CASE lastKey = "r" -> 0
                           [] lastKey = "g" -> 1
                           [] lastKey = "b" -> 2
                           [] lastKey = "w" -> 3}]_vars

KeyQueuedDuringTick ==
    pc = "update" /\ keys # <<>> /\ lastKey = "b" /\ pivots = {2}

\* C6 as stated: after a draw, the point drawn for the pivot vertex is the
\* projected pivot point itself, for every pivot index and every angle.
PivotStaysFixed ==
    (pc = "update") => \A i \in pivots : path[i + 1] = Scaled(Projected(i))

VertexIndexWraps ==
    ret # <<>> =>
        /\ ret[1] # Undefined
        /\ ret[2] # Undefined
        /\ ret = getVertex(arg % 4)

\* C9: when the canvas is missing or gives no context, nothing is ever
\* drawn, the angle never moves, no tick completes and no animation
\* callback is ever requested.
NoLoopWithoutSurface ==
    canvas.state # "ok" =>
        /\ pc \in {"load", "draw", "failed"}
        /\ pending = 0
        /\ nticks = 0
        /\ rotation = 0
        /\ path = <<>>
        /\ pivots = {}

NoContextFailed == canvas.state = "nocontext" /\ ctx = "null" /\ pc = "failed"

\* C10: with a context, every tick leaves a callback pending, and under
\* fair scheduling a frame is drawn again and again, whatever keys arrive.
LoopNeverStops ==
    /\ [](pc = "idle" => pending > 0)
    /\ []<>(ctx # "2d" \/ pc = "update")

DrawnAgainAfterKeys ==
    ctx = "2d" /\ pc = "update" /\ nticks >= 2 /\ lastKey # "none" /\ keys # <<>>

\* C11: a tick renders with the angle it finds, then subtracts 2, then
\* resets an angle below -360 to 0, then requests the next tick, in this
\* order; the first frame is rendered with angle 0.  (A render without a
\* drawing context throws, which ends the tick and the loop.)
TickOrder ==
    [][/\ (pc = "draw" /\ nticks = 0) => rotation = 0
       /\ (pc \in Running /\ pc' # pc) =>
              /\ pc = "draw" =>
                    /\ pc' = "polygon" \/ (pc' = "failed" /\ ctx # "2d")
                    /\ rotation' = rotation
                    /\ pending' = pending
              /\ pc = "polygon" => (pc' = "update" /\ rotation' = rotation /\ pending' = pending)
              /\ pc = "update" => (pc' = "wrap" /\ rotation' = rotation - 2 /\ pending' = pending)
              /\ pc = "wrap" =>
                    /\ pc' = "request"
                    /\ rotation' = (IF rotation < -360 THEN 0 ELSE rotation)
                    /\ pending' = pending
              /\ pc = "request" => (pc' = "idle" /\ rotation' = rotation /\ pending' = pending + 1)
       /\ (pc' = "draw" /\ pc # "draw") => pc \in {"load", "idle"}]_vars

WrapCheckedBeforeRender == pc = "request" /\ rotation = 0 /\ nticks = 180

\* C12: draw called twice in a row with angle 0 and the same pivot index
\* gives the same output both times: the second call paints every place of
\* the surface white before it draws, and it ends with the same path points
\* and the same picture as the first call.
DrawTwiceSame ==
    (ret # <<>> /\ rotation = 0) =>
        /\ pc = "polygon" => \A p \in pixels : p[2] = "white"
        /\ pc = "update" => <<path, pixels>> = ret

LargerYMapsHigher ==
    (ret # <<>> /\ arg.y1 < arg.y2) =>
        (ret[1][2] > ret[2][2] /\ ret[1][1] = ret[2][1])

CornersMappedReversed ==
    /\ arg = [x |-> 1, y1 |-> -1, y2 |-> 1, n |-> 5]
    /\ w = 120
    /\ h = 120
    /\ ret = <<<<72, 72>>, <<72, 48>>>>

\* C16: a run of the key listener leaves rotation as it was; a step of a tick
\* leaves edge as it was; w and h are written by mainEntrance only, once,
\* and never change afterwards.
WritersKeepApart ==
    [][/\ (keys # <<>> /\ keys' = Tail(keys)) => rotation' = rotation
       /\ ((pc \in Running \/ pc = "idle") /\ pc' # pc) => edge' = edge
       /\ pc # "load" => (w' = w /\ h' = h)
       /\ (w' # w \/ h' # h) => (w = Undefined /\ h = Undefined /\ pc' = "draw")]_vars

KeyHandledMidTurn ==
    /\ pc = "idle"
    /\ lastKey = "g"
    /\ edge = 1
    /\ pivots = {0}
    /\ rotation = -4
    /\ w = 200
    /\ h = 100

\* C17: the four recognized keys select four different corners: after a
\* recognized key, the pivot index and the pivot point of a draw differ from
\* the index and the point every other recognized key would give.
KeysSelectDifferentCorners ==
    (pc = "polygon" /\ lastKey # "none") =>
        \A k \in DOMAIN indexCoord \ {lastKey} :
            /\ edge # indexCoord[k]
            /\ points[edge + 1] # Projected(indexCoord[k])

\* C18: at most one animation callback is pending at any moment: none
\* while a tick runs, one between ticks; only the end of a tick requests
\* one, and requests exactly one; key presses and the key listener request
\* none; the angle goes down only in the update step, by 2, once per tick.
OneCallbackPending ==
    /\ [](/\ pending \in {0, 1}
          /\ pc \in Running => pending = 0
          /\ pc = "idle" => pending = 1)
    /\ [][/\ pending' > pending => (pc = "request" /\ pc' = "idle" /\ pending' = pending + 1)
          /\ pending' < pending => (pc = "idle" /\ pc' = "draw" /\ pending' = pending - 1)
          /\ keys' # keys => pending' = pending
          /\ (pc = "request" /\ pc' # pc) => pending' = pending + 1
          /\ rotation' < rotation => (pc = "update" /\ rotation' = rotation - 2)
          /\ (pc = "update" /\ pc' # pc) => rotation' = rotation - 2]_vars

OneCallbackAndKeyWaiting ==
    pc = "idle" /\ pending = 1 /\ keys # <<>> /\ nticks = 3 /\ lastKey # "none"

\* C19: between ticks the stored angle is an even integer from -360 to 0,
\* and the angle of the draw after k ticks is -2 * (k mod 181): the
\* sequence 0, -2, ..., -360 starts again after 181 ticks, not after 180.
AngleEvenAndPeriodic ==
    /\ pc \in {"request", "idle", "draw"} =>
           (rotation \in (-360)..0 /\ rotation % 2 = 0)
    /\ (pc = "draw" /\ nticks < MaxTicks) => rotation = -2 * (nticks % 181)

SecondTurnStarts == pc = "draw" /\ nticks = 181 /\ rotation = 0 /\ pending = 0

====
